---- MODULE Spec2Model ----
(***************************************************************************)
(* Model of src/app.py (ParetoPlotGeneratorApp).                           *)
(*                                                                         *)
(* Two specifications share this module:                                   *)
(*   Spec     the static method identify_pareto, applied to every bounded  *)
(*            score array and every pair of direction arguments;           *)
(*   SpecApp  the Tk application: on_plot / create_scatter_plot, on_click  *)
(*            / highlight_point and the popup <Destroy> binding that calls *)
(*            remove_highlight.                                            *)
(* Python indexes from 0, TLA+ sequences from 1: row k of the source is    *)
(* element k+1 here.                                                       *)
(***************************************************************************)
EXTENDS Integers, Sequences, FiniteSets, TLC

VARIABLES
    \* ---- identify_pareto (Spec) ----
    pc,                  \* "call" before the call, "done" after it returned
    scores,              \* argument: sequence of <<x, y>> rows
    bigger_is_better_x,  \* argument: any Python value, tested for truthiness
    bigger_is_better_y,  \* argument: any Python value, tested for truthiness
    is_pareto,           \* the returned mask
    raised,              \* exception raised by the call, "None" if none
    \* ---- the application (SpecApp) ----
    x_var, y_var,        \* the two combobox variables
    plot,                \* what the last create_scatter_plot did
    marker_cycle,        \* position of itertools.cycle(marker_list)
    highlighted_points,  \* dict: index value -> artist id
    lines,               \* artists drawn on the current axes (self.ax)
    popups,              \* open Toplevel popups, each bound to an index
    next_artist          \* id of the next artist ax.plot creates

paretoVars == <<pc, scores, bigger_is_better_x, bigger_is_better_y, is_pareto, raised>>
appVars == <<x_var, y_var, plot, marker_cycle, highlighted_points, lines, popups, next_artist>>
vars == <<pc, scores, bigger_is_better_x, bigger_is_better_y, is_pareto, raised,
          x_var, y_var, plot, marker_cycle, highlighted_points, lines, popups, next_artist>>

-----------------------------------------------------------------------------
(* Bounds *)
MaxPoints == 3
MaxCoord == 2
NumRows == 2
MaxArtists == 3

Coords == 0..MaxCoord
Points == Coords \X Coords
ScoreArrays == UNION {[1..n -> Points] : n \in 0..MaxPoints}

\* Python values a caller can pass as a direction flag.  The method takes
\* them untyped and only tests their truthiness.
PyValues == {"True", "False", "None", "'MINIMIZE'"}
Truthy(v) == v \in {"True", "'MINIMIZE'"}

-----------------------------------------------------------------------------
(* identify_pareto, src/app.py:279-308 *)

\* numpy all(a >= b), any(a > b) ... over the two columns of a row
AllGeq(a, b) == \A k \in 1..2 : a[k] >= b[k]
AnyGt(a, b) == \E k \in 1..2 : a[k] > b[k]
AllLeq(a, b) == \A k \in 1..2 : a[k] <= b[k]
AnyLt(a, b) == \E k \in 1..2 : a[k] < b[k]

\* line 286
CondMaxMax_StrictBoth(sj, si) == \A k \in 1..2 : sj[k] > si[k]
CondMaxMax_NoStrict(sj, si) == AllGeq(sj, si)
CondMaxMax(sj, si) == AllGeq(sj, si) /\ AnyGt(sj, si)

\* line 292
CondMaxMin_YOnly(sj, si) == sj[2] < si[2]
CondMaxMin_Weak(sj, si) == sj[1] >= si[1] /\ sj[2] <= si[2]
CondMaxMin(sj, si) == sj[1] >= si[1] /\ sj[2] < si[2]

\* line 298
CondMinMax_Weak(sj, si) == sj[1] <= si[1] /\ sj[2] >= si[2]
CondMinMax(sj, si) == sj[1] < si[1] /\ sj[2] >= si[2]

\* line 304
CondMinMin_XOnly(sj, si) == AllLeq(sj, si) /\ sj[1] < si[1]
CondMinMin(sj, si) == AllLeq(sj, si) /\ AnyLt(sj, si)

\* lines 283, 289, 295, 301: which of the four loops runs
Branch(bx, by) ==
    IF Truthy(bx) /\ Truthy(by) THEN "max_max"
    ELSE IF Truthy(bx) THEN "max_min"
    ELSE IF Truthy(by) THEN "min_max"
    ELSE "min_min"

Cond(branch, sj, si) ==
    CASE branch = "max_max" -> CondMaxMax(sj, si)
      [] branch = "max_min" -> CondMaxMin(sj, si)
      [] branch = "min_max" -> CondMinMax(sj, si)
      [] branch = "min_min" -> CondMinMin(sj, si)

\* The inner loop "for j in range(n)": the value is_pareto[i] has when the
\* loop ends, either by the break (FALSE) or by exhausting j (unchanged).
RECURSIVE InnerLoop(_, _, _, _, _)
InnerLoop(sc, branch, i, j, keep) ==
    IF j > Len(sc) THEN keep
    ELSE IF Cond(branch, sc[j], sc[i]) /\ i # j THEN FALSE
    ELSE InnerLoop(sc, branch, i, j + 1, keep)

\* line 281: np.ones(n, dtype=bool)
np_ones(n) == [i \in 1..n |-> TRUE]

\* The outer loop "for i in range(n)" writes only entry i of the mask.
RECURSIVE OuterLoop(_, _, _, _)
OuterLoop(sc, branch, i, mask) ==
    IF i > Len(sc) THEN mask
    ELSE OuterLoop(sc, branch, i + 1,
                   [mask EXCEPT ![i] = InnerLoop(sc, branch, i, 1, mask[i])])

identify_pareto_OnlyFront(sc, bx, by) ==
    SelectSeq(OuterLoop(sc, Branch(bx, by), 1, np_ones(Len(sc))), LAMBDA b : b)
identify_pareto(sc, bx, by) == OuterLoop(sc, Branch(bx, by), 1, np_ones(Len(sc)))

-----------------------------------------------------------------------------
(* The application, src/app.py:35-277 *)

WallRating == "robot viability rating [wall panels] (0 to 1)"
RoofRating == "robot viability rating [roof panels] (0 to 1)"
TravelTime == "mobile robot travel time (min)"
EmbodiedCarbon == "embodied carbon (kgCO2e)"

\* line 75
excluded_columns ==
    {"index", "Ru1", "Ru2", "Ru3", "v1", "v2", "v3", "v4", "v5",
     "boundrary area (m2)", "length (m)", "width (m)"}

\* The columns of the data set the model keeps: one excluded column, the
\* two rating columns and the two cost columns.
Columns == {"index", WallRating, RoofRating, TravelTime, EmbodiedCarbon}

\* line 312: the data frame read from the CSV file, NumRows rows.
dataframe ==
    [r \in 1..NumRows |->
        [c \in Columns |->
            CASE c = "index" -> 100 + r
              [] c = WallRating -> r % 2
              [] c = RoofRating -> (r + 1) % 2
              [] c = TravelTime -> r
              [] c = EmbodiedCarbon -> NumRows - r]]

\* line 40
marker_list == <<"^", "s", "o", "P", "X", "v">>

\* line 97: np.vstack((x, y)).T
Scores(column_x, column_y) ==
    [r \in 1..NumRows |-> <<dataframe[r][column_x], dataframe[r][column_y]>>]

\* lines 98-105: the direction flags create_scatter_plot passes
XRatingTest(column_x) == column_x \in {WallRating, RoofRating}
YRatingTestBoth(column_y) == column_y \in {WallRating, WallRating}
YRatingTest(column_y) == column_y \in {WallRating, RoofRating}

Flags(column_x, column_y) ==
    IF XRatingTest(column_x) /\ YRatingTestBoth(column_y) THEN <<"True", "True">>
    ELSE IF XRatingTest(column_x) THEN <<"True", "False">>
    ELSE IF YRatingTest(column_y) THEN <<"False", "True">>
    ELSE <<"False", "False">>

-----------------------------------------------------------------------------
(* Spec: identify_pareto on every bounded input *)

InitApp0 ==
    /\ x_var = "" /\ y_var = ""
    /\ plot = [kind |-> "none", column_x |-> "", column_y |-> "",
               bigger_is_better_x |-> "None", bigger_is_better_y |-> "None",
               pareto_front |-> <<>>]
    /\ marker_cycle = 0
    /\ highlighted_points = <<>>
    /\ lines = {}
    /\ popups = {}
    /\ next_artist = 1

Init ==
    /\ pc = "call"
    /\ scores \in ScoreArrays
    /\ bigger_is_better_x \in PyValues
    /\ bigger_is_better_y \in PyValues
    /\ is_pareto = <<>>
    /\ raised = "None"
    /\ InitApp0

IdentifyPareto ==
    /\ pc = "call"
    /\ is_pareto' = identify_pareto(scores, bigger_is_better_x, bigger_is_better_y)
    /\ raised' = "None"
    /\ pc' = "done"
    /\ UNCHANGED <<scores, bigger_is_better_x, bigger_is_better_y>>
    /\ UNCHANGED appVars

Next == IdentifyPareto

Spec == Init /\ [][Next]_vars

-----------------------------------------------------------------------------
(* SpecApp: the event handlers of the application *)

NoPlot ==
    [kind |-> "none", column_x |-> "", column_y |-> "",
     bigger_is_better_x |-> "None", bigger_is_better_y |-> "None",
     pareto_front |-> <<>>]

InitApp ==
    /\ pc = "idle"
    /\ scores = <<>>
    /\ bigger_is_better_x = "False"
    /\ bigger_is_better_y = "False"
    /\ is_pareto = <<>>
    /\ raised = "None"
    /\ InitApp0

\* The user picks a value in one of the read-only comboboxes (lines 55-64).
SelectX ==
    \E c \in Columns :
        /\ x_var' = c
        /\ UNCHANGED <<y_var, plot, marker_cycle, highlighted_points, lines, popups, next_artist>>
        /\ UNCHANGED paretoVars

SelectY ==
    \E c \in Columns :
        /\ y_var' = c
        /\ UNCHANGED <<x_var, plot, marker_cycle, highlighted_points, lines, popups, next_artist>>
        /\ UNCHANGED paretoVars

\* on_plot -> create_scatter_plot (lines 69-125).  With an empty selection
\* dataframe[''] raises KeyError before anything was ever plotted, leaving
\* the state as it was.  plt.subplots() makes a fresh self.ax, on which no
\* highlight is drawn; highlighted_points is not cleared.
OnPlot ==
    /\ x_var # "" /\ y_var # ""
    /\ IF x_var \in excluded_columns \/ y_var \in excluded_columns
       THEN plot' = [NoPlot EXCEPT !.kind = "plain", !.column_x = x_var, !.column_y = y_var]
       ELSE LET f == Flags(x_var, y_var)
            IN  plot' = [kind |-> "pareto", column_x |-> x_var, column_y |-> y_var,
                         bigger_is_better_x |-> f[1], bigger_is_better_y |-> f[2],
                         pareto_front |-> identify_pareto(Scores(x_var, y_var), f[1], f[2])]
    /\ lines' = {}
    /\ UNCHANGED <<x_var, y_var, marker_cycle, highlighted_points, popups, next_artist>>
    /\ UNCHANGED paretoVars

\* on_click -> highlight_point (lines 131-140, 153-256): a click that hits
\* row ind of the scatter.  image_exists is os.path.exists(image_path).
OnClick ==
    \E ind \in 1..NumRows, image_exists \in BOOLEAN :
        /\ plot.kind # "none"
        /\ next_artist <= MaxArtists
        /\ LET index_value == dataframe[ind]["index"]
               marker == marker_list[marker_cycle + 1]
               highlight == [id |-> next_artist, index |-> index_value, marker |-> marker]
           IN  /\ marker_cycle' = (marker_cycle + 1) % Len(marker_list)
               /\ lines' = lines \cup {highlight}
               /\ highlighted_points' =
                     [k \in DOMAIN highlighted_points \cup {index_value} |->
                         IF k = index_value THEN highlight.id ELSE highlighted_points[k]]
               /\ popups' = IF image_exists
                            THEN popups \cup {[id |-> next_artist, index |-> index_value]}
                            ELSE popups
               /\ next_artist' = next_artist + 1
        /\ UNCHANGED <<x_var, y_var, plot>>
        /\ UNCHANGED paretoVars

\* A popup is destroyed: its <Destroy> binding (line 256) calls
\* remove_highlight(index) (lines 273-277).
DestroyPopup ==
    \E p \in popups :
        /\ popups' = popups \ {p}
        /\ IF p.index \in DOMAIN highlighted_points
           THEN /\ lines' = {a \in lines : a.id # highlighted_points[p.index]}
                /\ highlighted_points' =
                      [k \in DOMAIN highlighted_points \ {p.index} |-> highlighted_points[k]]
           ELSE UNCHANGED <<lines, highlighted_points>>
        /\ UNCHANGED <<x_var, y_var, plot, marker_cycle, next_artist>>
        /\ UNCHANGED paretoVars

NextApp == SelectX \/ SelectY \/ OnPlot \/ OnClick \/ DestroyPopup

SpecApp == InitApp /\ [][NextApp]_vars

-----------------------------------------------------------------------------
(* Properties of the application, checked under SpecApp *)

\* C7: when create_scatter_plot computes a Pareto front, the flag passed
\* for each axis is MAXIMIZE exactly when that axis's column is one of the
\* two robot viability rating columns, and MINIMIZE otherwise.
C7_FlagsFollowRatingColumns ==
    plot.kind = "pareto" =>
        /\ plot.bigger_is_better_x =
              (IF plot.column_x \in {WallRating, RoofRating} THEN "True" ELSE "False")
        /\ plot.bigger_is_better_y =
              (IF plot.column_y \in {WallRating, RoofRating} THEN "True" ELSE "False")

\* C10: every highlight marker drawn on the plot is the value stored in
\* highlighted_points under its point's index.
C10_DrawnMarkersTracked ==
    \A a \in lines :
        /\ a.index \in DOMAIN highlighted_points
        /\ highlighted_points[a.index] = a.id

-----------------------------------------------------------------------------
(* Properties of identify_pareto, checked under Spec *)

\* The two enumerated directions: MAXIMIZE is True, MINIMIZE is False.
Direction == {"True", "False"}
Returned == pc = "done" /\ raised = "None"
Front == {i \in DOMAIN is_pareto : is_pareto[i]}

\* C1: under (MAXIMIZE, MAXIMIZE) and (MINIMIZE, MINIMIZE) point i is marked
\* true iff no other index j dominates it, j dominating i iff j is weakly
\* better on both coordinates and strictly better on at least one.
C1_PureFront ==
    (pc = "done" /\ bigger_is_better_x \in Direction
                /\ bigger_is_better_y = bigger_is_better_x) =>
        /\ DOMAIN is_pareto = DOMAIN scores
        /\ \A i \in DOMAIN scores :
              is_pareto[i] <=>
                ~ \E j \in DOMAIN scores :
                    /\ j # i
                    /\ IF bigger_is_better_x = "True"
                       THEN /\ scores[j][1] >= scores[i][1]
                            /\ scores[j][2] >= scores[i][2]
                            /\ (scores[j][1] > scores[i][1] \/ scores[j][2] > scores[i][2])
                       ELSE /\ scores[j][1] <= scores[i][1]
                            /\ scores[j][2] <= scores[i][2]
                            /\ (scores[j][1] < scores[i][1] \/ scores[j][2] < scores[i][2])

C1_Witness ==
    /\ Returned
    /\ bigger_is_better_x = "True" /\ bigger_is_better_y = "True"
    /\ scores = << <<1, 2>>, <<2, 1>>, <<0, 0>> >>
    /\ is_pareto = <<TRUE, TRUE, FALSE>>

\* C2: under the mixed pairs point i is marked true iff no other index j
\* dominates it, where for (MAXIMIZE, MINIMIZE) j dominates i iff
\* j.x >= i.x and j.y < i.y and for (MINIMIZE, MAXIMIZE) iff j.x < i.x and
\* j.y >= i.y; a point that every other point ties on the strictly compared
\* axis is therefore never eliminated.
C2_MixedFront ==
    (pc = "done" /\ bigger_is_better_x \in Direction
                /\ bigger_is_better_y \in Direction
                /\ bigger_is_better_y # bigger_is_better_x) =>
        /\ DOMAIN is_pareto = DOMAIN scores
        /\ \A i \in DOMAIN scores :
              /\ is_pareto[i] <=>
                    ~ \E j \in DOMAIN scores :
                        /\ j # i
                        /\ IF bigger_is_better_x = "True"
                           THEN scores[j][1] >= scores[i][1] /\ scores[j][2] < scores[i][2]
                           ELSE scores[j][1] < scores[i][1] /\ scores[j][2] >= scores[i][2]
              /\ (\A j \in DOMAIN scores :
                     IF bigger_is_better_x = "True"
                     THEN scores[j][2] = scores[i][2]
                     ELSE scores[j][1] = scores[i][1]) => is_pareto[i]

\* (2,1) ties (1,1) on the MINIMIZE axis and is better on the MAXIMIZE axis:
\* (1,1) survives; (0,2) is eliminated by either.
C2_Witness ==
    /\ Returned
    /\ bigger_is_better_x = "True" /\ bigger_is_better_y = "False"
    /\ scores = << <<1, 1>>, <<2, 1>>, <<0, 2>> >>
    /\ is_pareto = <<TRUE, TRUE, FALSE>>

\* C3: for every input, the empty one included, and every direction pair
\* the mask has exactly len(scores) entries, one per input row; the mask
\* of the empty input is empty.
C3_MaskLength ==
    (pc = "done" /\ bigger_is_better_x \in Direction
                /\ bigger_is_better_y \in Direction) =>
        /\ raised = "None"
        /\ Len(is_pareto) = Len(scores)
        /\ DOMAIN is_pareto = DOMAIN scores
        /\ \A k \in DOMAIN is_pareto : is_pareto[k] \in BOOLEAN
        /\ (scores = <<>> => is_pareto = <<>>)

C3_Witness ==
    /\ Returned
    /\ bigger_is_better_x = "False" /\ bigger_is_better_y = "True"
    /\ Len(scores) = 3
    /\ Len(is_pareto) = 3
    /\ Cardinality(Front) = 1

\* C4: a direction argument outside {MAXIMIZE, MINIMIZE} makes the call fail
\* with InvalidInput and return no mask.
C4_InvalidDirectionRaises ==
    (pc = "done" /\ (bigger_is_better_x \notin Direction
                     \/ bigger_is_better_y \notin Direction)) =>
        raised = "InvalidInput"

\* C5: if all points are identical (and there is at least one), every mask
\* entry is true under each of the four direction pairs.
C5_IdenticalAllTrue ==
    (pc = "done" /\ bigger_is_better_x \in Direction
                /\ bigger_is_better_y \in Direction
                /\ Len(scores) > 0
                /\ \A i, j \in DOMAIN scores : scores[i] = scores[j]) =>
        /\ DOMAIN is_pareto = DOMAIN scores
        /\ \A i \in DOMAIN is_pareto : is_pareto[i]

C5_Witness ==
    /\ Returned
    /\ bigger_is_better_x = "False" /\ bigger_is_better_y = "True"
    /\ scores = << <<1, 1>>, <<1, 1>>, <<1, 1>> >>
    /\ is_pareto = <<TRUE, TRUE, TRUE>>

\* C6: for the pure pairs, swapping the x and y coordinate of every point
\* (and the two flags) gives a mask with the same set of true indices.
C6_SwapSymmetry ==
    (pc = "done" /\ bigger_is_better_x \in Direction
                /\ bigger_is_better_y = bigger_is_better_x) =>
        LET swapped == [k \in DOMAIN scores |-> <<scores[k][2], scores[k][1]>>]
            mask == identify_pareto(swapped, bigger_is_better_y, bigger_is_better_x)
        IN  Front = {i \in DOMAIN mask : mask[i]}

C6_Witness ==
    /\ Returned
    /\ bigger_is_better_x = "False" /\ bigger_is_better_y = "False"
    /\ scores = << <<0, 1>>, <<0, 0>>, <<2, 0>> >>
    /\ is_pareto = <<FALSE, TRUE, FALSE>>

\* C8: for every non-empty input and each of the four direction pairs the
\* mask has at least one true entry.
C8_FrontNonEmpty ==
    (pc = "done" /\ bigger_is_better_x \in Direction
                /\ bigger_is_better_y \in Direction
                /\ Len(scores) > 0) =>
        \E i \in DOMAIN is_pareto : is_pareto[i]

\* a chain: each point is eliminated by the next, the last one survives
C8_Witness ==
    /\ Returned
    /\ bigger_is_better_x = "True" /\ bigger_is_better_y = "False"
    /\ scores = << <<0, 2>>, <<1, 1>>, <<2, 0>> >>
    /\ is_pareto = <<FALSE, FALSE, TRUE>>

\* C9: under each of the four direction pairs every point that is
\* non-dominated in the standard sense (no other point at least as good on
\* both axes and strictly better on one) is marked true.
C9_StandardFrontKept ==
    (pc = "done" /\ bigger_is_better_x \in Direction
                /\ bigger_is_better_y \in Direction) =>
        LET geq(d, a, b) == IF d = "True" THEN a >= b ELSE a <= b
            gt(d, a, b) == IF d = "True" THEN a > b ELSE a < b
            stdDominates(pj, pi) ==
                /\ geq(bigger_is_better_x, pj[1], pi[1])
                /\ geq(bigger_is_better_y, pj[2], pi[2])
                /\ (gt(bigger_is_better_x, pj[1], pi[1])
                    \/ gt(bigger_is_better_y, pj[2], pi[2]))
        IN  \A i \in DOMAIN scores :
              (~ \E j \in DOMAIN scores : j # i /\ stdDominates(scores[j], scores[i]))
                  => (i \in DOMAIN is_pareto /\ is_pareto[i])

\* (1,0) is the only standard-optimal point and is kept; (0,0) is dominated
\* in the standard sense but kept as well by the mixed rule.
C9_Witness ==
    /\ Returned
    /\ bigger_is_better_x = "True" /\ bigger_is_better_y = "False"
    /\ scores = << <<0, 0>>, <<1, 0>>, <<1, 1>> >>
    /\ is_pareto = <<TRUE, TRUE, FALSE>>

====
